---- MODULE Spec2Model ----
(***************************************************************************)
(* Pi-hole device tracker: the update coordinator's tick                   *)
(* (PiholeUpdateCoordinator._async_update_data), the merge of leases,      *)
(* devices and the ARP table into the published map, and the tracker       *)
(* entity's presence decision (PiholeTracker.is_connected / state).        *)
(*                                                                         *)
(* Python strings are sequences of one-character strings, so that lower(), *)
(* replace(), join(), split() and strip() are computed, not assumed.       *)
(* A missing dictionary key / Python None is the value None for string     *)
(* fields and PyNone for JSON number fields.                               *)
(***************************************************************************)
EXTENDS Integers, Sequences, FiniteSets, TLC

\* ------------------------------------------------------------------------
\* Python values
\* ------------------------------------------------------------------------
None == <<"None">>

PyNone == [type |-> "NoneType"]
PyInt(n) == [type |-> "int", val |-> n]
PyStr(s) == [type |-> "str", val |-> s]

\* isinstance(v, (int, float))
IsNumber(v) == v.type \in {"int", "float"}

\* truth value of a str-or-None value: None and "" are false
Truthy(s) == s # None /\ s # <<>>

\* the characters of the model, in code point order (sorted() compares
\* strings by code point)
CodePoints ==
  <<" ", "*", ",", "-", ".", "0", "1", "2", "3", "4", "5", "6", "7", "8", "9",
    ":", "A", "B", "C", "D", "E", "F", "a", "b", "c", "d", "e", "f">>

Ord(c) == CHOOSE i \in 1..Len(CodePoints) : CodePoints[i] = c

\* str.lower(), one character
LowerChar(c) ==
  CASE c = "A" -> "a" [] c = "B" -> "b" [] c = "C" -> "c"
    [] c = "D" -> "d" [] c = "E" -> "e" [] c = "F" -> "f"
    [] OTHER -> c

\* str.lower()
lower(s) == [i \in 1..Len(s) |-> LowerChar(s[i])]

\* str.replace("-", ":")
ReplaceDash(s) == [i \in 1..Len(s) |-> IF s[i] = "-" THEN ":" ELSE s[i]]

\* a < b for strings (lexicographic by code point)
RECURSIVE StrLess(_, _)
StrLess(a, b) ==
  IF b = <<>> THEN FALSE
  ELSE IF a = <<>> THEN TRUE
  ELSE IF a[1] # b[1] THEN Ord(a[1]) < Ord(b[1])
  ELSE StrLess(Tail(a), Tail(b))

\* sorted(S) for a set of strings
RECURSIVE Sorted(_)
Sorted(S) ==
  IF S = {} THEN <<>>
  ELSE LET m == CHOOSE x \in S : \A y \in S \ {x} : StrLess(x, y)
       IN <<m>> \o Sorted(S \ {m})

Sep == <<",", " ">>

\* ", ".join(list)
RECURSIVE Join(_)
Join(list) ==
  IF list = <<>> THEN <<>>
  ELSE IF Len(list) = 1 THEN list[1]
  ELSE list[1] \o Sep \o Join(Tail(list))

StartsWith(s, p) == Len(s) >= Len(p) /\ SubSeq(s, 1, Len(p)) = p

\* s.split(", "): the list of the pieces between the separators
RECURSIVE SplitFrom(_, _)
SplitFrom(s, cur) ==
  IF s = <<>> THEN <<cur>>
  ELSE IF StartsWith(s, Sep) THEN <<cur>> \o SplitFrom(SubSeq(s, Len(Sep) + 1, Len(s)), <<>>)
  ELSE SplitFrom(Tail(s), Append(cur, s[1]))

Split(s) == SplitFrom(s, <<>>)

\* str.strip() (the only whitespace of the model is the blank)
RECURSIVE LStrip(_)
LStrip(s) == IF s # <<>> /\ s[1] = " " THEN LStrip(Tail(s)) ELSE s

RECURSIVE RStrip(_)
RStrip(s) == IF s # <<>> /\ s[Len(s)] = " " THEN RStrip(SubSeq(s, 1, Len(s) - 1)) ELSE s

Strip(s) == RStrip(LStrip(s))

Range(f) == {f[i] : i \in DOMAIN f}

\* ------------------------------------------------------------------------
\* Dictionaries
\* ------------------------------------------------------------------------
EmptyDict == [k \in {} |-> None]

\* dict.get(key, default)
DictGet(d, key, default) == IF key \in DOMAIN d THEN d[key] ELSE default

\* d[key] = value
DictPut(d, key, value) == [k \in DOMAIN d \cup {key} |-> IF k = key THEN value ELSE d[k]]

\* ------------------------------------------------------------------------
\* _get_arp_table: the parse of the remote command's output.
\* stdout is the list of its lines, a line the list of its
\* whitespace-separated tokens (line.split()); a blank line has no token.
\* ------------------------------------------------------------------------
HexDigits == {"0", "1", "2", "3", "4", "5", "6", "7", "8", "9", "a", "b", "c", "d", "e", "f"}

\* mutant of MacShape: only the colon is a delimiter
MacShapeColonOnly(s) ==
  /\ Len(s) = 17
  /\ \A i \in 1..17 : IF i % 3 = 0 THEN s[i] = ":" ELSE s[i] \in HexDigits

\* re.match(r"^([0-9a-f]{2}[:-]){5}[0-9a-f]{2}$", s)
MacShape(s) ==
  /\ Len(s) = 17
  /\ \A i \in 1..17 :
       IF i % 3 = 0 THEN s[i] \in {":", "-"} ELSE s[i] \in HexDigits

\* the first token of MAC shape, lower-cased; None when there is none
RECURSIVE FirstMac(_)
FirstMac(parts) ==
  IF parts = <<>> THEN None
  ELSE IF MacShape(lower(parts[1])) THEN lower(parts[1])
  ELSE FirstMac(Tail(parts))

RECURSIVE ParseArp(_, _)
ParseArp(lines, arp_map) ==
  IF lines = <<>> THEN arp_map
  ELSE LET parts == lines[1]
           mac == FirstMac(parts)
       IN ParseArp(Tail(lines),
                   IF Len(parts) >= 5 /\ mac # None
                   THEN DictPut(arp_map, parts[1], ReplaceDash(mac))
                   ELSE arp_map)

\* _get_arp_table(): ssh_config is TRUE when an SSH host is configured;
\* ssh is the outcome of the remote command, [ok, stdout], ok = FALSE for
\* an exception (connection refused, login failure, ...)
GetArpTable(ssh_config, ssh) ==
  IF ~ssh_config THEN EmptyDict
  ELSE IF ~ssh.ok THEN EmptyDict
  ELSE ParseArp(ssh.stdout, EmptyDict)

\* ------------------------------------------------------------------------
\* The merge of _async_update_data (lines 200-251)
\* ------------------------------------------------------------------------
Star == <<"*">>

NewEntry == [ips |-> {}, name |-> None, dhcp_expires |-> PyNone,
             interface |-> None, first_seen |-> PyNone, last_query |-> PyNone,
             num_queries |-> PyNone, mac_vendor |-> None]

\* mutant of SetDefault: the entry is created anew for every record
SetDefaultFresh(merged, mac) == DictPut(merged, mac, NewEntry)

\* merged.setdefault(mac, {"ips": set()})
SetDefault(merged, mac) ==
  IF mac \in DOMAIN merged THEN merged ELSE DictPut(merged, mac, NewEntry)

\* the hardware address a lease or device record is keyed under
MacKey(rec) == lower(DictGet(rec, "hwaddr", <<>>))

\* mutant of MergeLease: every non-empty lease name is stored, the
\* placeholder too
MergeLeaseAnyName(merged, lease) ==
  LET mac == MacKey(lease)
      name == DictGet(lease, "name", None)
  IN IF mac = <<>> THEN merged
     ELSE LET m == SetDefault(merged, mac)
          IN [m EXCEPT ![mac] =
                [@ EXCEPT !.ips = @ \cup {DictGet(lease, "ip", None)},
                          !.name = IF Truthy(name) THEN name ELSE @,
                          !.dhcp_expires = DictGet(lease, "expires", PyNone)]]

\* one pass of the loop over the leases
MergeLease(merged, lease) ==
  LET mac == MacKey(lease)
      name == DictGet(lease, "name", None)
  IN IF mac = <<>> THEN merged
     ELSE LET m == SetDefault(merged, mac)
          IN [m EXCEPT ![mac] =
                [@ EXCEPT !.ips = @ \cup {DictGet(lease, "ip", None)},
                          !.name = IF Truthy(name) /\ name # Star THEN name ELSE @,
                          !.dhcp_expires = DictGet(lease, "expires", PyNone)]]

RECURSIVE MergeLeases(_, _)
MergeLeases(merged, leases) ==
  IF leases = <<>> THEN merged
  ELSE MergeLeases(MergeLease(merged, leases[1]), Tail(leases))

\* the inner loop over one device's "ips" list
RECURSIVE MergeIpEntries(_, _)
MergeIpEntries(entry, ip_entries) ==
  IF ip_entries = <<>> THEN entry
  ELSE LET ip == DictGet(ip_entries[1], "ip", None)
           n == DictGet(ip_entries[1], "name", None)
           e1 == IF Truthy(ip) THEN [entry EXCEPT !.ips = @ \cup {ip}] ELSE entry
           e2 == IF ~Truthy(e1.name) /\ Truthy(n) /\ n # Star
                 THEN [e1 EXCEPT !.name = n] ELSE e1
       IN MergeIpEntries(e2, Tail(ip_entries))

\* one pass of the loop over the devices
MergeDevice(merged, dev) ==
  LET mac == MacKey(dev)
  IN IF mac = <<>> THEN merged
     ELSE LET m == SetDefault(merged, mac)
              e == [m[mac] EXCEPT !.interface = DictGet(dev, "interface", None),
                                  !.first_seen = DictGet(dev, "firstSeen", PyNone),
                                  !.last_query = DictGet(dev, "lastQuery", PyNone),
                                  !.num_queries = DictGet(dev, "numQueries", PyNone),
                                  !.mac_vendor = DictGet(dev, "macVendor", None)]
          IN [m EXCEPT ![mac] = MergeIpEntries(e, DictGet(dev, "ips", <<>>))]

RECURSIVE MergeDevices(_, _)
MergeDevices(merged, devices) ==
  IF devices = <<>> THEN merged
  ELSE MergeDevices(MergeDevice(merged, devices[1]), Tail(devices))

\* mutant of ArpEnrich: every entry gains every IP of the ARP table
ArpEnrichAll(merged, arp) ==
  IF DOMAIN arp = {} THEN merged
  ELSE [mac \in DOMAIN merged |-> [merged[mac] EXCEPT !.ips = @ \cup DOMAIN arp]]

\* mutant of ArpEnrich: an address only the ARP table knows gets an entry
ArpEnrichCreates(merged, arp) ==
  LET macs == DOMAIN merged \cup {arp[ip] : ip \in DOMAIN arp}
  IN [mac \in macs |->
        [(IF mac \in DOMAIN merged THEN merged[mac] ELSE NewEntry)
           EXCEPT !.ips = @ \cup {ip \in DOMAIN arp : arp[ip] = mac}]]

\* the ARP enrichment: an entry gains the IPs the ARP table maps to its key
ArpEnrich(merged, arp) ==
  IF DOMAIN arp = {} THEN merged
  ELSE [mac \in DOMAIN merged |->
          [merged[mac] EXCEPT !.ips = @ \cup {ip \in DOMAIN arp : arp[ip] = mac}]]

\* ", ".join(sorted(ips)) raises TypeError when a lease carried no "ip"
JoinRaises(merged) == \E mac \in DOMAIN merged : None \in merged[mac].ips

JoinIps(merged) ==
  [mac \in DOMAIN merged |-> [merged[mac] EXCEPT !.ips = Join(Sorted(@))]]

\* the map before the IP sets are joined into strings
MergedSets(leases_json, devices_json, arp) ==
  ArpEnrich(MergeDevices(MergeLeases(EmptyDict, DictGet(leases_json, "leases", <<>>)),
                         DictGet(devices_json, "devices", <<>>)),
            arp)

\* ------------------------------------------------------------------------
\* Inputs: what the appliance and the remote shell may answer
\* ------------------------------------------------------------------------
\* a hardware address pp:pp:pp:pp:pp:qq written with separator s
Hw(p, q, s) == <<p, p, s, p, p, s, p, p, s, p, p, s, p, p, s, q, q>>

MacA == Hw("a", "1", ":")
MacAUpper == Hw("A", "1", ":")
MacADash == Hw("a", "1", "-")
MacB == Hw("b", "2", ":")

Ip2 == <<"1", ".", "2">>
Ip10 == <<"1", ".", "1", "0">>
Ip3 == <<"1", ".", "3">>

NameCafe == <<"c", "a", "f", "e">>
NameBed == <<"b", "e", "d">>

SidA == <<"a">>
SidB == <<"b">>

\* the recursion of _async_update_data into itself ends with RecursionError
\* at the interpreter's recursion limit (1000 frames; scaled)
RecursionLimit == 3

\* POST /api/auth: a transport error, or a status with a JSON body
AuthReplies ==
  {[kind |-> "error"]}
  \cup {[kind |-> "response", status |-> 200, body |-> [session |-> [sid |-> s]]] :
          s \in {SidA, SidB, <<>>}}
  \cup {[kind |-> "response", status |-> 200, body |-> [session |-> [valid |-> FALSE]]]}
  \cup {[kind |-> "response", status |-> st, body |-> [error |-> [key |-> "unauthorized"]]] :
          st \in {401, 500}}

LeaseA == [hwaddr |-> MacA, ip |-> Ip2, name |-> NameCafe, expires |-> PyInt(9)]
LeaseAUpper == [hwaddr |-> MacAUpper, ip |-> Ip10, name |-> Star, expires |-> PyInt(8)]
LeaseNoIp == [hwaddr |-> MacB, name |-> NameBed]

DevA == [hwaddr |-> MacA, interface |-> <<"e", "0">>, firstSeen |-> PyInt(0),
         lastQuery |-> PyInt(1), numQueries |-> PyInt(5), macVendor |-> <<"a", "c">>,
         ips |-> <<[ip |-> Ip3, name |-> NameBed]>>]
DevB == [hwaddr |-> MacB, interface |-> <<"e", "0">>, firstSeen |-> PyInt(0),
         lastQuery |-> PyInt(0), numQueries |-> PyInt(2), macVendor |-> <<"b", "d">>,
         ips |-> <<[ip |-> Ip2, name |-> Star]>>]

\* the lease and device lists the appliance answers with under Spec
ServerLeases == {<<LeaseA>>, <<LeaseNoIp>>}
ServerDevices == {<<DevA>>, <<DevB>>}

LeaseADash == [hwaddr |-> MacADash, ip |-> Ip3]
LeaseNoHw == [ip |-> Ip3, name |-> NameBed, expires |-> PyInt(7)]

DevAUpper == [hwaddr |-> MacAUpper, interface |-> <<"e", "0">>, firstSeen |-> PyInt(0),
              numQueries |-> PyInt(0),
              ips |-> <<[ip |-> <<>>, name |-> NameCafe], [ip |-> Ip10]>>]
DevBText == [hwaddr |-> MacB, lastQuery |-> PyStr(<<"1">>), macVendor |-> <<"b", "d">>]

\* the longest lease list, device list and the latest clock reading drawn
\* under MergeSpec
MaxLeases == 2
MaxDevices == 1
MaxNow == 3

\* the away_time of the config entry (DEFAULT_AWAY_TIME = 900 s; scaled)
AwayTimes == {2}

SeqsUpTo(S, n) == UNION {[1..k -> S] : k \in 0..n}

\* the lease and device lists the appliance answers with under MergeSpec
MergeLeaseLists == SeqsUpTo({LeaseA, LeaseAUpper, LeaseADash, LeaseNoHw}, MaxLeases)
MergeDeviceLists == SeqsUpTo({DevA, DevAUpper, DevB, DevBText}, MaxDevices)

\* a GET: a transport error (aiohttp.ClientError, asyncio.TimeoutError), a
\* body that is no JSON document, or a status with a JSON body
GetReplies(key, lists) ==
  {[kind |-> "error"]}
  \cup {[kind |-> "response", status |-> 500, json |-> FALSE]}
  \cup {[kind |-> "response", status |-> 200, json |-> TRUE, body |-> (key :> l)] :
          l \in lists}
  \cup {[kind |-> "response", status |-> st, json |-> TRUE,
         body |-> [error |-> [key |-> "internal"]]] : st \in {401, 500}}

ArpLine(ip, mac) == <<ip, <<"d">>, <<"e", "0">>, <<"f">>, mac, <<"a">>>>

\* outcomes of the remote command
SshResults ==
  {[ok |-> FALSE],
   [ok |-> TRUE, stdout |-> <<ArpLine(Ip10, MacADash), <<Ip2, MacB>>>>],
   [ok |-> TRUE, stdout |-> <<ArpLine(Ip2, MacB), <<>>>>]}

\* ------------------------------------------------------------------------
\* State
\* ------------------------------------------------------------------------
VARIABLES
  sid,          \* coordinator._sid
  ssh_config,   \* coordinator._ssh_config is set
  arp_cache,    \* coordinator._arp_cache
  data,         \* coordinator.data, the last published map
  pc,           \* where the tick is: "idle", or the call it awaits
  depth,        \* how many times _async_update_data has called itself
  headers,      \* the X-FTL-SID header of the current call frame
  leases_json,  \* the current frame's lease body
  devices_json, \* the current frame's device body
  result,       \* how the last finished tick ended
  obs,          \* what an observer of the running tick has counted
  valid_sids,   \* SIDs issued by a 200 authentication and not answered 401 since
  pub,          \* what the last published map was built from
  away_time,    \* the entry's away_time
  trk,          \* the last evaluation of a tracker entity
  ssh_out,      \* what the remote command of the last ARP fetch answered
  api,          \* a PiholeAPIClient and the call it is running
  flow,         \* the config flow, its step in progress and the config entries
  entities,     \* the tracker entities the platform setup has added
  hass_data     \* hass.data[DOMAIN] and, per entry, its last setup or unload call

vars == <<sid, ssh_config, arp_cache, data, pc, depth, headers, leases_json,
          devices_json, result, obs, valid_sids, pub, away_time, trk, ssh_out, api, flow,
          entities, hass_data>>

NoBody == [none |-> TRUE]
NoObs == [calls |-> 0, auths |-> 0, reauths |-> 0, lease_status |-> 0,
          device_status |-> 0, attempt |-> <<>>, event |-> "none",
          after_failure |-> FALSE]
NoPub == [lease_status |-> 0, device_status |-> 0, leases |-> <<>>, devices |-> <<>>,
          sets |-> EmptyDict]
NoTrk == [mac |-> None, now |-> 0, connected |-> FALSE, state |-> "none",
          attrs |-> EmptyDict]
NoSsh == [ran |-> FALSE, ok |-> FALSE, stdout |-> <<>>, before |-> {}]
NoApi == [sid |-> None, method |-> "none", pc |-> "idle", depth |-> 0, calls |-> 0,
          auths |-> 0, reauths |-> 0, result |-> [kind |-> "none"], got |-> NoBody,
          event |-> "none"]
NoFlow == [entries |-> {}, pc |-> "idle", step |-> "none", host |-> None,
           result |-> "none", errors |-> "none", tests |-> 0, event |-> "none"]
NoEntities == [added |-> FALSE, unique_id |-> EmptyDict, name |-> EmptyDict]
EntryIds == {"e1", "e2", "e3"}
NoHass == [has_domain |-> FALSE, records |-> EmptyDict,
           last |-> [e \in EntryIds |->
                       [op |-> "none", appliance |-> "none", unload_ok |-> FALSE,
                        outcome |-> "none"]]]

\* the outcome of a remote command, as the observer notes it
SshSeen(ssh) == [ran |-> TRUE, ok |-> ssh.ok, stdout |-> IF ssh.ok THEN ssh.stdout ELSE <<>>,
                 before |-> {}]

\* ------------------------------------------------------------------------
\* _authenticate
\* ------------------------------------------------------------------------
\* self._sid after _authenticate(): only a 200 response assigns it
AuthSid(old, reply) ==
  IF reply.kind = "response" /\ reply.status = 200
  THEN DictGet(DictGet(reply.body, "session", EmptyDict), "sid", None)
  ELSE old

\* mutant of AuthOk: any 200 response counts as authenticated
AuthOkAny200(old, reply) == reply.kind = "response" /\ reply.status = 200

\* the value _authenticate() returns
AuthOk(old, reply) ==
  reply.kind = "response" /\ reply.status = 200 /\ Truthy(AuthSid(old, reply))

\* ------------------------------------------------------------------------
\* _async_update_data, one action per awaited call
\* ------------------------------------------------------------------------
\* mutant of Is401: the 401 branch is never taken
Is401Never(resp) == FALSE

\* "if resp.status == 401" of the two GETs
Is401(resp) == resp.status = 401

\* mutant of SidAfter401: the rejected SID is kept
SidKeptAfter401(s) == s

\* "self._sid = None" of the 401 branch
SidAfter401(s) == None

\* mutant of MustAuthenticate: every call frame authenticates
MustAuthenticateAlways(s) == TRUE

\* "if not self._sid" at the head of a call frame
MustAuthenticate(s) == ~Truthy(s)

\* headers = {"X-FTL-SID": self._sid}
HeaderOf(s) == s

\* mutant of RunsRemoteCommand: the remote command is run without an SSH host
RunsRemoteCommandAlways(cfg) == TRUE

\* "if ssh_config" of _get_arp_table: a remote command is run
RunsRemoteCommand(cfg) == cfg

\* what the observer notes of a reply, in the claims' terms
AuthEvent(reply) ==
  IF /\ reply.kind = "response"
     /\ reply.status = 200
     /\ "session" \in DOMAIN reply.body
     /\ "sid" \in DOMAIN reply.body.session
     /\ reply.body.session.sid # <<>>
  THEN "auth_ok" ELSE "auth_failed"

GetEvent(reply) ==
  IF reply.kind = "error" THEN "client_error"
  ELSE IF reply.status = 401 THEN "unauthorized"
  ELSE IF ~reply.json THEN "bad_json"
  ELSE "answered"

Sent(o, call, ev) ==
  [o EXCEPT !.calls = @ + 1,
            !.auths = IF call = "auth" THEN @ + 1 ELSE @,
            !.attempt = Append(@, call),
            !.event = ev]

\* the observer's note at the start of a tick: the tick before it failed
TickFailed(res) == res \in {"UpdateFailed", "Exception"}

\* the tick ends without publishing
EndTick(res, ev) ==
  /\ pc' = "idle"
  /\ depth' = 0
  /\ headers' = None
  /\ leases_json' = NoBody
  /\ devices_json' = NoBody
  /\ result' = res
  /\ obs' = [NoObs EXCEPT !.event = ev, !.after_failure = obs.after_failure]

\* lines 175-181 of a call frame entered with depth d and SID s
EnterFrame(d, s, o, ev) ==
  /\ depth' = d
  /\ leases_json' = NoBody
  /\ devices_json' = NoBody
  /\ result' = "running"
  /\ IF MustAuthenticate(s)
     THEN /\ pc' = "auth"
          /\ headers' = None
          /\ obs' = [Sent(o, "auth", ev) EXCEPT !.reauths = IF d > 0 THEN @ + 1 ELSE @]
     ELSE /\ pc' = "leases"
          /\ headers' = HeaderOf(s)
          /\ obs' = Sent(o, "leases", ev)

StartTick ==
  /\ pc = "idle"
  /\ EnterFrame(0, sid, [NoObs EXCEPT !.after_failure = TickFailed(result)], "start")
  /\ ssh_out' = NoSsh
  /\ trk' = NoTrk
  /\ UNCHANGED <<sid, ssh_config, arp_cache, data, valid_sids, pub, away_time>>
  /\ UNCHANGED <<api, flow, entities, hass_data>>

AuthReply(reply) ==
  /\ pc = "auth"
  /\ sid' = AuthSid(sid, reply)
  /\ valid_sids' = IF AuthEvent(reply) = "auth_ok"
                    THEN valid_sids \cup {reply.body.session.sid} ELSE valid_sids
  /\ IF AuthOk(sid, reply)
     THEN /\ pc' = "leases"
          /\ headers' = HeaderOf(sid')
          /\ obs' = Sent(obs, "leases", AuthEvent(reply))
          /\ UNCHANGED <<depth, leases_json, devices_json, result>>
     ELSE EndTick("UpdateFailed", AuthEvent(reply))
  /\ UNCHANGED <<ssh_config, arp_cache, data, pub, away_time, trk>>
  /\ UNCHANGED <<ssh_out, api, flow, entities, hass_data>>

\* "return await self._async_update_data()" after a 401 to the frame's GET
Retry ==
  /\ sid' = SidAfter401(sid)
  /\ valid_sids' = valid_sids \ {headers}
  /\ IF depth < RecursionLimit
     THEN EnterFrame(depth + 1, sid',
                     [obs EXCEPT !.attempt = <<>>, !.lease_status = 0,
                                 !.device_status = 0],
                     "unauthorized")
     ELSE \E res \in {"Exception", "UpdateFailed"} : EndTick(res, "unauthorized")
  /\ UNCHANGED <<ssh_config, arp_cache, data, pub, away_time, trk>>

\* lines 234-251: the ARP table is stored, the map enriched, joined, returned
\* mutant of StoreArpCache: the table is merged into the cache that is there
StoreArpCacheUpdating(old, arp_table) ==
  [ip \in DOMAIN old \cup DOMAIN arp_table |->
     IF ip \in DOMAIN arp_table THEN arp_table[ip] ELSE old[ip]]

\* "self._arp_cache = arp_table"
StoreArpCache(old, arp_table) == arp_table

Finish(lj, dj, ls, ds, arp, ev) ==
  LET merged == MergedSets(lj, dj, arp)
  IN /\ arp_cache' = StoreArpCache(arp_cache, arp)
     /\ IF JoinRaises(merged)
        THEN /\ EndTick("Exception", ev)
             /\ UNCHANGED <<data, pub>>
        ELSE /\ EndTick("published", ev)
             /\ data' = JoinIps(merged)
             /\ pub' = [lease_status |-> ls, device_status |-> ds,
                        leases |-> DictGet(lj, "leases", <<>>),
                        devices |-> DictGet(dj, "devices", <<>>),
                        sets |-> merged]
     /\ UNCHANGED <<sid, ssh_config, valid_sids, away_time, trk>>

LeasesReply(reply) ==
  /\ pc = "leases"
  /\ UNCHANGED <<ssh_out, api, flow, entities, hass_data>>
  /\ IF reply.kind = "error"
     THEN /\ EndTick("UpdateFailed", GetEvent(reply))
          /\ UNCHANGED <<sid, ssh_config, arp_cache, data, valid_sids, pub, away_time, trk>>
     ELSE IF Is401(reply)
     THEN Retry
     ELSE IF ~reply.json
     THEN /\ EndTick("Exception", GetEvent(reply))
          /\ UNCHANGED <<sid, ssh_config, arp_cache, data, valid_sids, pub, away_time, trk>>
     ELSE /\ leases_json' = reply.body
          /\ pc' = "devices"
          /\ obs' = [Sent(obs, "devices", GetEvent(reply)) EXCEPT !.lease_status = reply.status]
          /\ UNCHANGED <<sid, ssh_config, arp_cache, data, depth, headers, devices_json,
                         result, valid_sids, pub, away_time, trk>>

DevicesReply(reply) ==
  /\ pc = "devices"
  /\ UNCHANGED <<ssh_out, api, flow, entities, hass_data>>
  /\ IF reply.kind = "error"
     THEN /\ EndTick("UpdateFailed", GetEvent(reply))
          /\ UNCHANGED <<sid, ssh_config, arp_cache, data, valid_sids, pub, away_time, trk>>
     ELSE IF Is401(reply)
     THEN Retry
     ELSE IF ~reply.json
     THEN /\ EndTick("Exception", GetEvent(reply))
          /\ UNCHANGED <<sid, ssh_config, arp_cache, data, valid_sids, pub, away_time, trk>>
     ELSE IF RunsRemoteCommand(ssh_config)
     THEN /\ devices_json' = reply.body
          /\ pc' = "arp"
          /\ obs' = [Sent(obs, "arp", GetEvent(reply)) EXCEPT !.device_status = reply.status]
          /\ UNCHANGED <<sid, ssh_config, arp_cache, data, depth, headers, leases_json,
                         result, valid_sids, pub, away_time, trk>>
     ELSE Finish(leases_json, reply.body, obs.lease_status, reply.status,
                 GetArpTable(ssh_config, [ok |-> FALSE]), GetEvent(reply))

ArpReply(ssh) ==
  /\ pc = "arp"
  /\ ssh_out' = [SshSeen(ssh) EXCEPT !.before = DOMAIN arp_cache]
  /\ UNCHANGED <<api, flow, entities, hass_data>>
  /\ Finish(leases_json, devices_json, obs.lease_status, obs.device_status,
            GetArpTable(ssh_config, ssh), "arp_done")

Init ==
  /\ sid = None
  /\ ssh_config \in BOOLEAN
  /\ arp_cache = EmptyDict
  /\ data = EmptyDict
  /\ pc = "idle"
  /\ depth = 0
  /\ headers = None
  /\ leases_json = NoBody
  /\ devices_json = NoBody
  /\ result = "none"
  /\ obs = NoObs
  /\ valid_sids = {}
  /\ pub = NoPub
  /\ away_time \in AwayTimes
  /\ trk = NoTrk
  /\ ssh_out = NoSsh
  /\ api = NoApi
  /\ flow = NoFlow
  /\ entities = NoEntities
  /\ hass_data = NoHass

Next ==
  \/ StartTick
  \/ \E reply \in AuthReplies : AuthReply(reply)
  \/ \E reply \in GetReplies("leases", ServerLeases) : LeasesReply(reply)
  \/ \E reply \in GetReplies("devices", ServerDevices) : DevicesReply(reply)
  \/ \E ssh \in SshResults : ArpReply(ssh)

Spec == Init /\ [][Next]_vars

\* ------------------------------------------------------------------------
\* PiholeTracker
\* ------------------------------------------------------------------------
\* mutant of WithinAway: a device exactly at the threshold is away
WithinAwayStrict(now, last, away) == (now - last) < away

\* "(now_ts - last) <= self._away"
WithinAway(now, last, away) == (now - last) <= away

\* "ip in coordinator._arp_cache" for some piece of ips.split(", ")
AnyIpInArp(ips, arp) ==
  /\ Truthy(ips)
  /\ \E i \in 1..Len(Split(ips)) : Strip(Split(ips)[i]) \in DOMAIN arp

\* PiholeTracker.is_connected() of the entity of mac, called at time now
IsConnected(d, arp, away, mac, now) ==
  IF mac \notin DOMAIN d THEN FALSE
  ELSE LET info == d[mac]
           last == info.last_query
       IN IF AnyIpInArp(info.ips, arp) THEN TRUE
          ELSE IF ~IsNumber(last) THEN FALSE
          ELSE WithinAway(now, last.val, away)

\* bool(obj) for the objects of the model
PyBool(obj) ==
  CASE obj.type = "NoneType" -> FALSE
    [] obj.type = "bool" -> obj.val
    [] obj.type = "int" -> obj.val # 0
    [] obj.type = "method" -> TRUE

\* the attribute self.is_connected: is_connected is a plain method (no
\* @property), so the attribute is the bound method, not its result
IsConnectedAttr(d, arp, away, mac, now) == [type |-> "method", name |-> "is_connected"]

\* mutant of State: an entity whose MAC is not in the data has no state
StateUnknownIfAbsent(d, arp, away, mac, now) ==
  IF mac \notin DOMAIN d THEN "unknown"
  ELSE IF PyBool(IsConnectedAttr(d, arp, away, mac, now)) THEN "home" ELSE "not_home"

\* PiholeTracker.state
State(d, arp, away, mac, now) ==
  IF PyBool(IsConnectedAttr(d, arp, away, mac, now)) THEN "home" ELSE "not_home"

\* datetime.fromtimestamp(ts, timezone.utc).isoformat() for the timestamps
\* of the model, which lie in the first minute of the epoch
IsoFormat(ts) ==
  LET digits == <<"0", "1", "2", "3", "4", "5", "6", "7", "8", "9">>
  IN PyStr(<<"1", "9", "7", "0", "-", "0", "1", "-", "0", "1", "T", "0", "0", ":", "0", "0", ":">>
           \o <<digits[(ts \div 10) + 1], digits[(ts % 10) + 1]>>
           \o <<"+", "0", "0", ":", "0", "0">>)

\* "datetime.fromtimestamp(v, timezone.utc).isoformat()
\*  if isinstance(v, (int, float)) else None"
IsoOrNone(v) == IF IsNumber(v) THEN IsoFormat(v.val) ELSE PyNone

\* mutant of ExtraStateAttributes: the entry is read with a default instead
\* of the early return
ExtraStateAttributesNoGuard(d, mac, now) ==
  LET info == DictGet(d, mac, NewEntry)
      last == info.last_query
  IN [last_query |-> IsoOrNone(last),
      last_query_seconds_ago |-> IF IsNumber(last) THEN PyInt(now - last.val) ELSE PyNone,
      first_seen |-> IsoOrNone(info.first_seen),
      num_queries |-> info.num_queries,
      mac_vendor |-> info.mac_vendor,
      ips |-> info.ips,
      name |-> info.name,
      dhcp_expires |-> IsoOrNone(info.dhcp_expires),
      interface |-> info.interface]

\* PiholeTracker.extra_state_attributes of the entity of mac, read at time now
ExtraStateAttributes(d, mac, now) ==
  IF mac \notin DOMAIN d THEN EmptyDict
  ELSE LET info == d[mac]
           last == info.last_query
       IN [last_query |-> IsoOrNone(last),
           last_query_seconds_ago |-> IF IsNumber(last) THEN PyInt(now - last.val) ELSE PyNone,
           first_seen |-> IsoOrNone(info.first_seen),
           num_queries |-> info.num_queries,
           mac_vendor |-> info.mac_vendor,
           ips |-> info.ips,
           name |-> info.name,
           dhcp_expires |-> IsoOrNone(info.dhcp_expires),
           interface |-> info.interface]

\* str.replace(old, ""): every occurrence of old, left to right, is dropped
RECURSIVE Remove(_, _)
Remove(s, old) ==
  IF s = <<>> THEN <<>>
  ELSE IF StartsWith(s, old) THEN Remove(SubSeq(s, Len(old) + 1, Len(s)), old)
  ELSE <<s[1]>> \o Remove(Tail(s), old)

DotLocal == <<".", "l", "o", "c", "a", "l">>

\* PiholeTracker._get_device_name: the name, else the IP text, else the MAC
GetDeviceName(d, mac) ==
  IF mac \notin DOMAIN d THEN mac
  ELSE LET info == d[mac]
           name == info.name
           ips == info.ips
       IN IF Truthy(name) /\ name # Star /\ Strip(name) # <<>>
          THEN Strip(Remove(name, DotLocal))
          ELSE IF Truthy(ips) THEN ips
          ELSE mac

\* re.sub(r"[^a-zA-Z0-9_]", "_", name)
SubNonWord(s) ==
  LET word == {"0", "1", "2", "3", "4", "5", "6", "7", "8", "9", "_",
               "a", "b", "c", "d", "e", "f", "g", "h", "i", "j", "k", "l", "m",
               "n", "o", "p", "q", "r", "s", "t", "u", "v", "w", "x", "y", "z",
               "A", "B", "C", "D", "E", "F", "G", "H", "I", "J", "K", "L", "M",
               "N", "O", "P", "Q", "R", "S", "T", "U", "V", "W", "X", "Y", "Z"}
  IN [i \in 1..Len(s) |-> IF s[i] \in word THEN s[i] ELSE "_"]

\* re.sub(r"_+", "_", name)
RECURSIVE SubUnderscores(_)
SubUnderscores(s) ==
  IF s = <<>> THEN <<>>
  ELSE IF Len(s) >= 2 /\ s[1] = "_" /\ s[2] = "_" THEN SubUnderscores(Tail(s))
  ELSE <<s[1]>> \o SubUnderscores(Tail(s))

\* name.strip("_")
RECURSIVE StripUnderscores(_)
StripUnderscores(s) ==
  IF s # <<>> /\ s[1] = "_" THEN StripUnderscores(Tail(s))
  ELSE IF s # <<>> /\ s[Len(s)] = "_" THEN StripUnderscores(SubSeq(s, 1, Len(s) - 1))
  ELSE s

\* PiholeTracker._sanitize_for_entity_id (the letters of the model's names
\* that have an upper case are A to F)
SanitizeForEntityId(name) ==
  LET t == lower(StripUnderscores(SubUnderscores(SubNonWord(name))))
  IN SubSeq(t, 1, IF Len(t) < 64 THEN Len(t) ELSE 64)

\* mac.replace(":", "").replace("-", "").lower()[-4:]
MacSuffix(mac) ==
  LET t == lower(Remove(Remove(mac, <<":">>), <<"-">>))
  IN SubSeq(t, IF Len(t) > 4 THEN Len(t) - 3 ELSE 1, Len(t))

\* the _attr_name PiholeTracker.__init__ gives the entity of mac
AttrName(d, mac) == GetDeviceName(d, mac) \o <<" ", "p", "i", "h", "o", "l", "e">>

\* the _attr_unique_id PiholeTracker.__init__ gives the entity of mac
AttrUniqueId(d, mac) ==
  SanitizeForEntityId(GetDeviceName(d, mac)) \o <<"_">> \o MacSuffix(mac)
    \o <<"_", "p", "i", "h", "o", "l", "e">>

\* device_tracker.async_setup_entry: one PiholeTracker per key of
\* coordinator.data, handed to async_add_entities
PlatformSetup ==
  /\ pc = "idle"
  /\ result = "published"
  /\ ~entities.added
  /\ entities' = [added |-> TRUE,
                  unique_id |-> [mac \in DOMAIN data |-> AttrUniqueId(data, mac)],
                  name |-> [mac \in DOMAIN data |-> AttrName(data, mac)]]
  /\ UNCHANGED <<sid, ssh_config, arp_cache, data, pc, depth, headers, leases_json,
                 devices_json, result, obs, valid_sids, pub, away_time, trk, ssh_out,
                 api, flow, hass_data>>

\* the host platform reads an entity: entities exist once a map was published
TrackerEval(mac, now) ==
  /\ pc = "idle"
  /\ result = "published"
  /\ trk' = [mac |-> mac, now |-> now,
             connected |-> IsConnected(data, arp_cache, away_time, mac, now),
             state |-> State(data, arp_cache, away_time, mac, now),
             attrs |-> ExtraStateAttributes(data, mac, now)]
  /\ UNCHANGED <<sid, ssh_config, arp_cache, data, pc, depth, headers, leases_json,
                 devices_json, result, obs, valid_sids, pub, away_time, ssh_out, api, flow,
                 entities, hass_data>>

\* ------------------------------------------------------------------------
\* MergeSpec: a tick whose authentication and lease GET were answered 200,
\* with every lease list and device list up to the bounds, followed by
\* readings of the tracker entities
\* ------------------------------------------------------------------------
MergeInit ==
  /\ sid = SidA
  /\ ssh_config \in BOOLEAN
  /\ arp_cache = EmptyDict
  /\ data = EmptyDict
  /\ pc = "devices"
  /\ depth = 0
  /\ headers = SidA
  /\ leases_json \in {[leases |-> l] : l \in MergeLeaseLists}
  /\ devices_json = NoBody
  /\ result = "running"
  /\ obs = [calls |-> 3, auths |-> 1, reauths |-> 0, lease_status |-> 200,
            device_status |-> 0, attempt |-> <<"auth", "leases", "devices">>,
            event |-> "answered", after_failure |-> FALSE]
  /\ valid_sids = {SidA}
  /\ pub = NoPub
  /\ away_time \in AwayTimes
  /\ trk = NoTrk
  /\ ssh_out = NoSsh
  /\ api = NoApi
  /\ flow = NoFlow
  /\ entities = NoEntities
  /\ hass_data = NoHass

MergeNext ==
  \/ \E l \in MergeDeviceLists :
       DevicesReply([kind |-> "response", status |-> 200, json |-> TRUE,
                     body |-> [devices |-> l]])
  \/ \E ssh \in SshResults : ArpReply(ssh)
  \/ \E mac \in DOMAIN data \cup {MacB}, now \in 0..MaxNow : TrackerEval(mac, now)

MergeSpec == MergeInit /\ [][MergeNext]_vars

\* ------------------------------------------------------------------------
\* ArpSpec: a tick whose authentication and two GETs were answered 200,
\* with every output of the remote command up to the bound
\* ------------------------------------------------------------------------
\* the longest output of the remote command drawn under ArpSpec, in lines
MaxArpLines == 3

\* lines of "ip neigh show": a full line with a dashed address, a full line
\* for the same IP with another address, a line of two tokens, a line of
\* five tokens without an address, a line with an upper-case address, and a
\* line whose first token is itself an address
ArpLines ==
  {ArpLine(Ip10, MacADash),
   ArpLine(Ip10, MacB),
   <<Ip2, MacB>>,
   <<Ip3, <<"d">>, <<"e", "0">>, <<"f">>, <<"a">>>>,
   <<Ip2, <<"d">>, <<"e", "0">>, <<"f">>, MacAUpper>>,
   <<MacB, <<"d">>, MacADash, <<"f">>, <<"a">>>>}

ArpOutputs ==
  {[ok |-> FALSE]} \cup {[ok |-> TRUE, stdout |-> o] : o \in SeqsUpTo(ArpLines, MaxArpLines)}

ArpInit ==
  /\ sid = SidA
  /\ ssh_config = TRUE
  /\ arp_cache = EmptyDict
  /\ data = EmptyDict
  /\ pc = "arp"
  /\ depth = 0
  /\ headers = SidA
  /\ leases_json = [leases |-> <<LeaseA>>]
  /\ devices_json = [devices |-> <<DevB>>]
  /\ result = "running"
  /\ obs = [calls |-> 4, auths |-> 1, reauths |-> 0, lease_status |-> 200,
            device_status |-> 200, attempt |-> <<"auth", "leases", "devices", "arp">>,
            event |-> "answered", after_failure |-> FALSE]
  /\ valid_sids = {SidA}
  /\ pub = NoPub
  /\ away_time \in AwayTimes
  /\ trk = NoTrk
  /\ ssh_out = NoSsh
  /\ api = NoApi
  /\ flow = NoFlow
  /\ entities = NoEntities
  /\ hass_data = NoHass

ArpNext == \E ssh \in ArpOutputs : ArpReply(ssh)

ArpSpec == ArpInit /\ [][ArpNext]_vars

\* ------------------------------------------------------------------------
\* PiholeAPIClient (api.py)
\* ------------------------------------------------------------------------
PyTrue == [type |-> "bool", val |-> TRUE]
PyFalse == [type |-> "bool", val |-> FALSE]

\* async_get_status, async_get_summary, async_get_clients, async_test_connection
ApiMethods == {"status", "summary", "clients", "test"}

\* POST /api/auth as the client sees it: the host is unreachable, the
\* request times out, or a status comes back, with or without a JSON body
ApiAuthReplies ==
  {[kind |-> "error"], [kind |-> "timeout"]}
  \cup {[kind |-> "response", status |-> 200, json |-> FALSE]}
  \cup {[kind |-> "response", status |-> 200, json |-> TRUE,
         body |-> [session |-> [sid |-> s]]] : s \in {SidA, SidB, <<>>}}
  \cup {[kind |-> "response", status |-> 200, json |-> TRUE,
         body |-> [session |-> [valid |-> FALSE]]]}
  \cup {[kind |-> "response", status |-> st, json |-> TRUE,
         body |-> [error |-> [key |-> "unauthorized"]]] : st \in {401, 500}}

\* the JSON bodies of the three GETs
ApiBodies ==
  {[clients |-> <<[name |-> NameCafe, ip |-> Ip2]>>],
   [blocking |-> PyTrue],
   [took |-> PyInt(1)]}

ApiGetReplies ==
  {[kind |-> "error"], [kind |-> "timeout"]}
  \cup {[kind |-> "response", status |-> 200, json |-> FALSE]}
  \cup {[kind |-> "response", status |-> 200, json |-> TRUE, body |-> b] : b \in ApiBodies}
  \cup {[kind |-> "response", status |-> st, json |-> TRUE,
         body |-> [error |-> [key |-> "internal"]]] : st \in {401, 500}}

Returned(v) == [kind |-> "returned", value |-> v]

\* self._sid after the POST of _async_authenticate: only a 200 response
\* whose body parses assigns it
ApiAuthSid(old, reply) ==
  IF reply.kind = "response" /\ reply.status = 200 /\ reply.json
  THEN DictGet(DictGet(reply.body, "session", EmptyDict), "sid", None)
  ELSE old

\* mutant of ApiAuthOk: any 200 response counts as authenticated
ApiAuthOkAny200(old, reply) == reply.kind = "response" /\ reply.status = 200

\* whether _async_authenticate returns a SID after its POST (None otherwise)
ApiAuthOk(old, reply) ==
  /\ reply.kind = "response"
  /\ reply.status = 200
  /\ reply.json
  /\ Truthy(ApiAuthSid(old, reply))

\* "if not sid: return ..." of the four methods
ApiAuthFailed(method) ==
  CASE method = "status" -> [status |-> "error", reason |-> "authentication_failed"]
    [] method \in {"summary", "clients"} -> EmptyDict
    [] method = "test" -> PyFalse

\* mutant of ApiOnGet200: the listing is unwrapped from the body
ApiOnGet200Unwrapped(method, body) ==
  IF method = "status"
  THEN [status |-> "success", blocking |-> DictGet(body, "blocking", PyFalse)]
  ELSE [list |-> DictGet(body, method, <<>>)]

\* the 200 branch of the three GETs
ApiOnGet200(method, body) ==
  IF method = "status"
  THEN [status |-> "success", blocking |-> DictGet(body, "blocking", PyFalse)]
  ELSE body

\* the else branch of the three GETs
ApiOnOtherStatus(method, st) ==
  IF method = "status" THEN [status |-> "error", code |-> st] ELSE EmptyDict

\* the except clauses of the three GETs; they also catch the ContentTypeError
\* of resp.json() and the RecursionError of the retry
ApiOnException(method, kind) ==
  IF method = "status"
  THEN [status |-> "error",
        reason |-> IF kind = "timeout" THEN "timeout" ELSE "unknown_error"]
  ELSE EmptyDict

\* what the observer notes of a reply to the POST, in the claims' terms
ApiAuthEvent(reply) ==
  IF reply.kind = "error" THEN "auth_unreachable"
  ELSE IF reply.kind = "timeout" THEN "auth_timeout"
  ELSE IF reply.status = 401 THEN "auth_rejected"
  ELSE IF reply.status # 200 THEN "auth_non200"
  ELSE IF /\ reply.json
          /\ "session" \in DOMAIN reply.body
          /\ "sid" \in DOMAIN reply.body.session
          /\ reply.body.session.sid # <<>>
  THEN "auth_ok" ELSE "auth_no_sid"

ApiSent(a, call) ==
  [a EXCEPT !.calls = @ + 1,
            !.auths = IF call = "auth" THEN @ + 1 ELSE @,
            !.reauths = IF call = "auth" /\ a.depth > 0 THEN @ + 1 ELSE @]

ApiReturn(a, v, ev) == [a EXCEPT !.pc = "idle", !.result = Returned(v), !.event = ev]

\* the head of a method's frame: sid = await self._async_authenticate(),
\* which answers from the cache when a SID is held and POSTs otherwise
ApiEnterFrame(a) ==
  IF Truthy(a.sid)
  THEN IF a.method = "test"
       THEN ApiReturn(a, PyTrue, "cached")
       ELSE [ApiSent(a, "get") EXCEPT !.pc = "get"]
  ELSE [ApiSent(a, "auth") EXCEPT !.pc = "auth"]

\* a method is called on the idle client
ApiBegin(a, method) ==
  ApiEnterFrame([a EXCEPT !.method = method, !.depth = 0, !.calls = 0, !.auths = 0,
                          !.reauths = 0, !.result = [kind |-> "none"],
                          !.got = NoBody, !.event = "called"])

\* the POST of _async_authenticate is answered and the method goes on
ApiAfterAuth(a, reply) ==
  LET a1 == [a EXCEPT !.sid = ApiAuthSid(a.sid, reply)]
      ok == ApiAuthOk(a.sid, reply)
      ev == ApiAuthEvent(reply)
  IN IF a.method = "test"
     THEN ApiReturn(a1, IF ok THEN PyTrue ELSE PyFalse, ev)
     ELSE IF ~ok
     THEN ApiReturn(a1, ApiAuthFailed(a.method), ev)
     ELSE [ApiSent(a1, "get") EXCEPT !.pc = "get", !.event = ev]

\* where the RecursionError of the deepest frame is raised: inside
\* _async_authenticate, whose except clause turns it into "no SID", or in
\* the method's own try block
RecursionErrorSites == {"authenticate", "method"}

\* the GET of a method is answered; site tells where a RecursionError lands
ApiAfterGet(a, reply, site) ==
  IF reply.kind # "response"
  THEN ApiReturn(a, ApiOnException(a.method, reply.kind), "get_failed")
  ELSE IF reply.status = 200
  THEN IF reply.json
       THEN ApiReturn([a EXCEPT !.got = reply.body],
                      ApiOnGet200(a.method, reply.body), "get_200")
       ELSE ApiReturn(a, ApiOnException(a.method, "error"), "get_bad_json")
  ELSE IF reply.status = 401
  THEN IF a.depth < RecursionLimit
       THEN ApiEnterFrame([a EXCEPT !.sid = None, !.depth = @ + 1,
                                    !.event = "get_401"])
       ELSE ApiReturn([a EXCEPT !.sid = None],
                      IF site = "authenticate" THEN ApiAuthFailed(a.method)
                      ELSE ApiOnException(a.method, "error"),
                      "get_401")
  ELSE ApiReturn(a, ApiOnOtherStatus(a.method, reply.status), "get_other")

ApiRest == <<sid, ssh_config, arp_cache, data, pc, depth, headers, leases_json,
             devices_json, result, obs, valid_sids, pub, away_time, trk, ssh_out,
             entities, hass_data>>

ApiCall(method) ==
  /\ api.pc = "idle"
  /\ api' = ApiBegin(api, method)
  /\ UNCHANGED <<ApiRest, flow>>

ApiAuthReply(reply) ==
  /\ api.pc = "auth"
  /\ api' = ApiAfterAuth(api, reply)
  /\ UNCHANGED <<ApiRest, flow>>

ApiGetReply(reply) ==
  /\ api.pc = "get"
  /\ \E site \in RecursionErrorSites : api' = ApiAfterGet(api, reply, site)
  /\ UNCHANGED <<ApiRest, flow>>

ApiInit ==
  /\ sid = None
  /\ ssh_config = FALSE
  /\ arp_cache = EmptyDict
  /\ data = EmptyDict
  /\ pc = "idle"
  /\ depth = 0
  /\ headers = None
  /\ leases_json = NoBody
  /\ devices_json = NoBody
  /\ result = "none"
  /\ obs = NoObs
  /\ valid_sids = {}
  /\ pub = NoPub
  /\ away_time \in AwayTimes
  /\ trk = NoTrk
  /\ ssh_out = NoSsh
  /\ api = NoApi
  /\ flow = NoFlow
  /\ entities = NoEntities
  /\ hass_data = NoHass

ApiNext ==
  \/ \E method \in ApiMethods : ApiCall(method)
  \/ \E reply \in ApiAuthReplies : ApiAuthReply(reply)
  \/ \E reply \in ApiGetReplies : ApiGetReply(reply)

ApiSpec == ApiInit /\ [][ApiNext]_vars

\* ------------------------------------------------------------------------
\* PiholeDeviceTrackerConfigFlow (config_flow.py)
\* ------------------------------------------------------------------------
\* the hosts a user may submit
FlowHosts == {<<"p">>, <<"q">>, <<"r">>}

\* mutant of FlowTestConnection: the answer of the client is not looked at
FlowTestConnectionUnchecked(res) ==
  IF res.kind = "raised"
  THEN IF res.auth_text THEN "AuthenticationError" ELSE "ConnectionError"
  ELSE "ok"

\* _async_test_connection, given how client.async_test_connection() ended:
\* what it raises, or "ok" when it returns True
FlowTestConnection(res) ==
  IF res.kind = "raised"
  THEN IF res.auth_text THEN "AuthenticationError" ELSE "ConnectionError"
  ELSE IF ~PyBool(res.value) THEN "AuthenticationError"
  ELSE "ok"

\* the except clauses of async_step_user: errors["base"]
StepError(exc) ==
  CASE exc = "ConnectionError" -> "cannot_connect"
    [] exc = "AuthenticationError" -> "invalid_auth"
    [] OTHER -> "unknown"

\* self._abort_if_unique_id_configured() after async_set_unique_id(host)
AlreadyConfigured(entries, host) == host \in entries

FlowShowForm(f, step, host, err, ev) ==
  [f EXCEPT !.pc = "idle", !.step = step, !.host = host, !.result = "form",
            !.errors = err, !.event = ev]

\* async_step_user(None): the empty form
FlowOpen ==
  /\ flow.pc = "idle"
  /\ flow' = FlowShowForm([flow EXCEPT !.tests = 0], "open", None, "none", "none")
  /\ UNCHANGED <<ApiRest, api>>

\* async_step_user(user_input) up to the POST of the connection test;
\* has_password tells whether user_input holds CONF_PASSWORD
FlowSubmit(host, has_password) ==
  /\ flow.pc = "idle"
  /\ IF AlreadyConfigured(flow.entries, host)
     THEN /\ flow' = [flow EXCEPT !.step = "submit", !.host = host, !.result = "abort",
                                  !.errors = "none", !.tests = 0,
                                  !.event = "already_configured"]
          /\ api' = api
     ELSE IF ~has_password
     THEN /\ flow' = FlowShowForm([flow EXCEPT !.tests = 0], "submit", host,
                                  StepError("KeyError"), "no_password")
          /\ api' = api
     ELSE /\ flow' = [flow EXCEPT !.pc = "testing", !.step = "submit", !.host = host,
                                  !.result = "none", !.errors = "none", !.tests = 1,
                                  !.event = "testing"]
          /\ api' = ApiBegin(NoApi, "test")
  /\ UNCHANGED ApiRest

\* the POST of the connection test is answered and the step ends
FlowTestReply(reply) ==
  /\ flow.pc = "testing"
  /\ api.pc = "auth"
  /\ api' = ApiAfterAuth(api, reply)
  /\ LET exc == FlowTestConnection(api'.result)
     IN flow' = IF exc = "ok"
                THEN [flow EXCEPT !.pc = "idle", !.result = "create_entry",
                                  !.errors = "none",
                                  !.entries = @ \cup {flow.host},
                                  !.event = ApiAuthEvent(reply)]
                ELSE FlowShowForm(flow, "submit", flow.host, StepError(exc),
                                  ApiAuthEvent(reply))
  /\ UNCHANGED ApiRest

FlowNext ==
  \/ FlowOpen
  \/ \E host \in FlowHosts, has_password \in BOOLEAN : FlowSubmit(host, has_password)
  \/ \E reply \in ApiAuthReplies : FlowTestReply(reply)

FlowSpec == ApiInit /\ [][FlowNext]_vars

\* ------------------------------------------------------------------------
\* EntitySpec: ticks that publish, the platform setup after one of them, and
\* readings of the entities it added while later ticks publish other maps
\* ------------------------------------------------------------------------
MacC == <<"b", "b", ":", "b", "b", ":", "b", "b", ":", "b", "b", ":", "a", "a", ":", "1", "1">>

LeaseC == [hwaddr |-> MacC, ip |-> Ip3, name |-> NameCafe \o DotLocal, expires |-> PyInt(9)]
DevA10 == [hwaddr |-> MacA, interface |-> <<"e", "0">>, firstSeen |-> PyInt(0),
           lastQuery |-> PyInt(0), numQueries |-> PyInt(5), macVendor |-> <<"a", "c">>,
           ips |-> <<[ip |-> Ip10, name |-> Star]>>]

EntityLeases == {<<>>, <<LeaseA, LeaseC>>}
EntityDevices == {<<DevA10>>, <<DevB>>}

EntityInit ==
  /\ sid = None
  /\ ssh_config = TRUE
  /\ arp_cache = EmptyDict
  /\ data = EmptyDict
  /\ pc = "idle"
  /\ depth = 0
  /\ headers = None
  /\ leases_json = NoBody
  /\ devices_json = NoBody
  /\ result = "none"
  /\ obs = NoObs
  /\ valid_sids = {}
  /\ pub = NoPub
  /\ away_time \in AwayTimes
  /\ trk = NoTrk
  /\ ssh_out = NoSsh
  /\ api = NoApi
  /\ flow = NoFlow
  /\ entities = NoEntities
  /\ hass_data = NoHass

EntityNext ==
  \/ StartTick
  \/ AuthReply([kind |-> "response", status |-> 200, body |-> [session |-> [sid |-> SidA]]])
  \/ \E l \in EntityLeases :
       LeasesReply([kind |-> "response", status |-> 200, json |-> TRUE,
                    body |-> [leases |-> l]])
  \/ \E l \in EntityDevices :
       DevicesReply([kind |-> "response", status |-> 200, json |-> TRUE,
                     body |-> [devices |-> l]])
  \/ \E ssh \in SshResults : ArpReply(ssh)
  \/ PlatformSetup
  \/ \E mac \in DOMAIN entities.unique_id, now \in 0..MaxNow : TrackerEval(mac, now)

EntitySpec == EntityInit /\ [][EntityNext]_vars

\* ------------------------------------------------------------------------
\* SetupSpec: the host platform sets up and unloads config entries
\* (__init__.py)
\* ------------------------------------------------------------------------

\* the names const.py defines
ConstNames ==
  {"DOMAIN", "CONF_AWAY_TIME", "CONF_SCAN_INTERVAL", "CONF_SSH_HOST", "CONF_SSH_PORT",
   "CONF_SSH_USERNAME", "CONF_SSH_PASSWORD", "CONF_SSH_KEY_PATH", "DEFAULT_HOST",
   "DEFAULT_PASSWORD", "DEFAULT_SCAN_INTERVAL", "DEFAULT_AWAY_TIME", "DEFAULT_SSH_PORT",
   "DEFAULT_SSH_USERNAME", "ATTR_INTERFACE", "ATTR_FIRST_SEEN", "ATTR_LAST_QUERY",
   "ATTR_NUM_QUERIES", "ATTR_MAC_VENDOR", "ATTR_IPS", "ATTR_NAME", "ATTR_DHCP_EXPIRES",
   "ATTR_ARP_IP", "AUTH_ENDPOINT", "LEASES_ENDPOINT", "DEVICES_ENDPOINT"}

\* the names __init__.py imports from const.py
InitImports ==
  {"CONF_AWAY_TIME", "CONF_SCAN_INTERVAL", "DEFAULT_AWAY_TIME", "DEFAULT_HOST",
   "DEFAULT_SCAN_INTERVAL", "DOMAIN", "CONF_SSH_HOST", "CONF_SSH_KEY_PATH",
   "CONF_SSH_PASSWORD", "CONF_SSH_PORT", "CONF_SSH_USERNAME", "DEFAULT_SSH_HOST",
   "DEFAULT_SSH_KEY_PATH", "DEFAULT_SSH_PASSWORD", "DEFAULT_SSH_PORT",
   "DEFAULT_SSH_USERNAME"}

\* "from .const import (...)" finds every name
PackageImports == InitImports \subseteq ConstNames

\* the parameters of PiholeUpdateCoordinator.__init__ (there is no **kwargs)
CoordinatorParameters ==
  {"hass", "host", "password", "scan_interval", "ssh_host", "ssh_port", "ssh_username",
   "ssh_password"}

\* the arguments async_setup_entry passes to PiholeUpdateCoordinator(...)
SetupArguments ==
  {"hass", "host", "password", "scan_interval", "ssh_host", "ssh_port", "ssh_username",
   "ssh_password", "ssh_key_path"}

\* the call of the constructor binds every argument to a parameter
ConstructorAccepts == SetupArguments \subseteq CoordinatorParameters

\* how async_setup_entry ends; appliance is how the appliance would answer
\* the first refresh, "answers" or "fails"
SetupOutcome(appliance) ==
  IF ~PackageImports THEN "ImportError"
  ELSE IF ~ConstructorAccepts THEN "TypeError"
  ELSE IF appliance = "fails" THEN "ConfigEntryNotReady"
  ELSE "True"

\* how async_unload_entry ends
UnloadOutcome(h, entry_id, unload_ok) ==
  IF ~PackageImports THEN "ImportError"
  ELSE IF ~unload_ok THEN "False"
  ELSE IF ~h.has_domain \/ entry_id \notin DOMAIN h.records THEN "KeyError"
  ELSE "True"

SetupRest == <<sid, ssh_config, arp_cache, data, pc, depth, headers, leases_json,
               devices_json, result, obs, valid_sids, pub, away_time, trk, ssh_out,
               api, flow, entities>>

\* __init__.async_setup_entry of the entry entry_id
SetupEntry(entry_id, away, appliance) ==
  LET out == SetupOutcome(appliance)
  IN /\ hass_data' =
          [has_domain |-> hass_data.has_domain \/ out = "True",
           records |-> IF out = "True"
                       THEN DictPut(hass_data.records, entry_id,
                                    [coordinator |-> entry_id, away_time |-> away])
                       ELSE hass_data.records,
           last |-> [hass_data.last EXCEPT ![entry_id] =
                       [op |-> "setup", appliance |-> appliance, unload_ok |-> FALSE,
                        outcome |-> out]]]
     /\ UNCHANGED SetupRest

\* __init__.async_unload_entry of the entry entry_id; unload_ok is what
\* async_unload_platforms answers
UnloadEntry(entry_id, unload_ok) ==
  LET out == UnloadOutcome(hass_data, entry_id, unload_ok)
  IN /\ hass_data' =
          [has_domain |-> hass_data.has_domain,
           records |-> IF out = "True"
                       THEN [k \in DOMAIN hass_data.records \ {entry_id} |->
                               hass_data.records[k]]
                       ELSE hass_data.records,
           last |-> [hass_data.last EXCEPT ![entry_id] =
                       [op |-> "unload", appliance |-> "none", unload_ok |-> unload_ok,
                        outcome |-> out]]]
     /\ UNCHANGED SetupRest

SetupNext ==
  \/ \E e \in EntryIds, away \in AwayTimes, appliance \in {"answers", "fails"} :
       SetupEntry(e, away, appliance)
  \/ \E e \in EntryIds, unload_ok \in BOOLEAN : UnloadEntry(e, unload_ok)

SetupSpec == ApiInit /\ [][SetupNext]_vars

\* ------------------------------------------------------------------------
\* Claims about the tick (checked under Spec)
\* ------------------------------------------------------------------------

\* C1: a 401 triggers exactly one re-authentication within a tick: no tick
\* authenticates a second time after a 401.
C1_AtMostOneReauth == obs.reauths <= 1

C7_BoundedCalls == obs.calls <= 7

\* C8: a published map was built from a 200 lease response and a 200 device
\* response of the same tick.
C8_PublishedFromBoth200 ==
  result = "published" => pub.lease_status = 200 /\ pub.device_status = 200

IsPrefix(p, q) == Len(p) <= Len(q) /\ SubSeq(q, 1, Len(p)) = p

\* C9: within one attempt the calls are authenticate (only when no SID is
\* held), lease GET, device GET, ARP fetch, in this order; the device GET
\* follows a non-401 lease response and the ARP fetch follows non-401
\* responses to both GETs of the attempt.
C9_CallOrder ==
  /\ \/ IsPrefix(obs.attempt, <<"auth", "leases", "devices", "arp">>)
     \/ IsPrefix(obs.attempt, <<"leases", "devices", "arp">>)
  /\ pc = "auth" => ~Truthy(sid)
  /\ pc = "devices" => obs.lease_status \notin {0, 401}
  /\ pc = "arp" => obs.lease_status \notin {0, 401} /\ obs.device_status \notin {0, 401}

\* C9 witness: the ARP fetch of an attempt that followed a 401.
C9_Witness ==
  /\ pc = "arp"
  /\ depth = 1
  /\ obs.attempt = <<"auth", "leases", "devices", "arp">>

\* C10: every GET in flight carries a non-empty SID that a 200
\* authentication issued and no 401 has invalidated since.
C10_GetCarriesValidSid ==
  pc \in {"leases", "devices"} => Truthy(headers) /\ headers \in valid_sids

\* C10 witness: a device GET sent with the SID of a re-authentication.
C10_Witness ==
  /\ pc = "devices"
  /\ depth = 1
  /\ headers \in valid_sids

\* ------------------------------------------------------------------------
\* Claims about the merge and the tracker (checked under MergeSpec)
\* ------------------------------------------------------------------------
CasePairs == {{"a", "A"}, {"b", "B"}, {"c", "C"}, {"d", "D"}, {"e", "E"}, {"f", "F"}}

\* two spellings that differ at most in letter case
SameIgnoringCase(a, b) ==
  /\ Len(a) = Len(b)
  /\ \A i \in 1..Len(a) : a[i] = b[i] \/ {a[i], b[i]} \in CasePairs

\* two spellings that differ at most in letter case and delimiter
SameAddress(a, b) ==
  /\ Len(a) = Len(b)
  /\ \A i \in 1..Len(a) :
       a[i] = b[i] \/ {a[i], b[i]} \in CasePairs \/ {a[i], b[i]} = {":", "-"}

HasHw(rec) == "hwaddr" \in DOMAIN rec /\ rec.hwaddr # <<>>

\* the IPs of the tick's leases of address k
LeaseIps(k) ==
  {pub.leases[i].ip : i \in {j \in DOMAIN pub.leases :
      HasHw(pub.leases[j]) /\ SameIgnoringCase(pub.leases[j].hwaddr, k)}}

\* the non-empty IPs of the tick's device records of address k
DeviceIps(k) ==
  UNION {{e.ip : e \in {x \in Range(DictGet(pub.devices[i], "ips", <<>>)) :
                          "ip" \in DOMAIN x /\ x.ip # <<>>}} :
         i \in {j \in DOMAIN pub.devices :
                  HasHw(pub.devices[j]) /\ SameIgnoringCase(pub.devices[j].hwaddr, k)}}

\* the IPs a published entry lists
IpSet(ips) == Range(Split(ips))

\* the tracker's entry has no listed IP in the ARP cache
TrkNoArp ==
  /\ trk.mac \in DOMAIN data
  /\ \A ip \in pub.sets[trk.mac].ips : ip \notin DOMAIN arp_cache

\* C2: for a device none of whose IPs is in the ARP cache, state is not_home
\* when now - last > away_time and home when it is within the threshold.
C2_StateFollowsThreshold ==
  (trk.state # "none" /\ TrkNoArp /\ IsNumber(data[trk.mac].last_query)) =>
     trk.state = IF trk.now - data[trk.mac].last_query.val > away_time
                 THEN "not_home" ELSE "home"

\* C3: is_connected() is true exactly when the MAC is a key of the data and
\* either a listed IP is a key of the ARP cache or last_query is a number
\* with now - last_query <= away_time.
C3_IsConnectedIff ==
  trk.state # "none" =>
     (trk.connected <=>
        /\ trk.mac \in DOMAIN data
        /\ \/ \E ip \in pub.sets[trk.mac].ips : ip \in DOMAIN arp_cache
           \/ /\ IsNumber(data[trk.mac].last_query)
              /\ trk.now - data[trk.mac].last_query.val <= away_time)

\* C3 witness: a device exactly at the threshold, absent from the ARP cache,
\* was found connected.
C3_Witness ==
  /\ trk.state # "none"
  /\ TrkNoArp
  /\ IsNumber(data[trk.mac].last_query)
  /\ trk.now - data[trk.mac].last_query.val = away_time
  /\ trk.connected

\* C4: a lease and a device record of the same hardware address give one
\* entry, whose IPs are the lease IPs and the device IPs of that address
\* (and nothing else unless the ARP table added it).
C4_MergedIpsAreUnion ==
  result = "published" =>
    \A i \in DOMAIN pub.leases, j \in DOMAIN pub.devices :
      (/\ HasHw(pub.leases[i])
       /\ HasHw(pub.devices[j])
       /\ SameIgnoringCase(pub.leases[i].hwaddr, pub.devices[j].hwaddr)) =>
        LET hw == pub.leases[i].hwaddr
            keys == {k \in DOMAIN data : SameIgnoringCase(k, hw)}
        IN /\ Cardinality(keys) = 1
           /\ \A k \in keys :
                /\ LeaseIps(hw) \cup DeviceIps(hw) \subseteq IpSet(data[k].ips)
                /\ DOMAIN arp_cache = {} =>
                     IpSet(data[k].ips) = LeaseIps(hw) \cup DeviceIps(hw)

\* C4 witness: a published entry that lists the IPs of two leases and of a
\* device record of one address, with no ARP table.
C4_Witness ==
  /\ result = "published"
  /\ ~ssh_config
  /\ MacA \in DOMAIN data
  /\ data[MacA].ips = Join(<<Ip10, Ip2, Ip3>>)
  /\ Len(pub.devices) >= 1

\* C5: the keying of lease and device records is idempotent and sends two
\* spellings that differ only in letter case or in delimiter to one key, so
\* such a lease and device record share one entry.
C5_SpellingsShareKey ==
  result = "published" =>
    /\ \A k \in DOMAIN data : MacKey([hwaddr |-> k]) = k
    /\ \A i \in DOMAIN pub.leases, j \in DOMAIN pub.devices :
         (/\ HasHw(pub.leases[i])
          /\ HasHw(pub.devices[j])
          /\ SameAddress(pub.leases[i].hwaddr, pub.devices[j].hwaddr)) =>
           Cardinality({k \in DOMAIN data : SameAddress(k, pub.leases[i].hwaddr)}) = 1

\* ------------------------------------------------------------------------
\* Further claims about the merge and the tracker (checked under MergeSpec)
\* ------------------------------------------------------------------------

\* C15: a reading of PiholeTracker.state is home or not_home, also when the
\* entity's MAC is not a key of the data or last_query is missing or no
\* number.
C15_StateHomeOrNotHome == trk.mac # None => trk.state \in {"home", "not_home"}

\* C15 witness: the state of an entity whose MAC is not in the data was read.
C15_Witness ==
  /\ trk.mac # None
  /\ trk.mac \notin DOMAIN data
  /\ trk.state = "home"

\* a name that is neither empty nor the placeholder
GoodName(rec) == "name" \in DOMAIN rec /\ rec.name # <<>> /\ rec.name # Star

\* the tick's leases and device records whose address is k up to letter case
LeasesOf(k) ==
  {pub.leases[i] : i \in {j \in DOMAIN pub.leases :
      HasHw(pub.leases[j]) /\ SameIgnoringCase(pub.leases[j].hwaddr, k)}}

DevicesOf(k) ==
  {pub.devices[i] : i \in {j \in DOMAIN pub.devices :
      HasHw(pub.devices[j]) /\ SameIgnoringCase(pub.devices[j].hwaddr, k)}}

IpRecordsOf(k) == UNION {Range(DictGet(dev, "ips", <<>>)) : dev \in DevicesOf(k)}

\* C16: in a published map an entry's name is absent or a non-empty string
\* other than "*"; the entry has a name whenever a lease or an IP record of
\* its device carries such a name; and when a lease carries one, the
\* entry's name is a lease's name, not a device record's.
C16_Names ==
  result = "published" =>
    \A k \in DOMAIN data :
      LET n == data[k].name
          lease_names == {l.name : l \in {x \in LeasesOf(k) : GoodName(x)}}
          device_names == {r.name : r \in {x \in IpRecordsOf(k) : GoodName(x)}}
      IN /\ n = None \/ (n # <<>> /\ n # Star)
         /\ lease_names \cup device_names # {} => n # None
         /\ lease_names # {} => n \in lease_names
         /\ n # None => n \in lease_names \cup device_names

\* C16 witness: an entry kept its lease name although a device record of the
\* same address carries another name.
C16_Witness ==
  /\ result = "published"
  /\ MacA \in DOMAIN data
  /\ data[MacA].name = NameCafe
  /\ LeaseA \in LeasesOf(MacA)
  /\ DevA \in DevicesOf(MacA)

\* C17: without an SSH host no remote command is run and the ARP cache is
\* empty; when the remote command fails the ARP cache is empty and the tick
\* publishes the map merged from the leases and devices alone; with an
\* empty ARP cache is_connected() follows the timestamp threshold alone.
C17_ArpOptional ==
  /\ ~ssh_config => pc # "arp" /\ ~ssh_out.ran /\ DOMAIN arp_cache = {}
  /\ (pc = "idle" /\ ssh_out.ran /\ ~ssh_out.ok) =>
       /\ DOMAIN arp_cache = {}
       /\ result = "published"
       /\ \A k \in DOMAIN data : pub.sets[k].ips = LeaseIps(k) \cup DeviceIps(k)
  /\ (trk.mac # None /\ DOMAIN arp_cache = {}) =>
       (trk.connected <=>
          /\ trk.mac \in DOMAIN data
          /\ IsNumber(data[trk.mac].last_query)
          /\ trk.now - data[trk.mac].last_query.val <= away_time)

\* C17 witness: after a failed remote command a map was published and a
\* device of it was found away by its timestamp.
C17_Witness ==
  /\ ssh_config
  /\ ssh_out.ran
  /\ ~ssh_out.ok
  /\ result = "published"
  /\ trk.mac \in DOMAIN data
  /\ IsNumber(data[trk.mac].last_query)
  /\ ~trk.connected

UpperHex == {"A", "B", "C", "D", "E", "F"}

NoUpper(s) == \A i \in 1..Len(s) : s[i] \notin UpperHex

\* C18: the keys of a published map are exactly the lower-cased non-empty
\* hwaddr values of the tick's leases and devices: a record without hwaddr
\* gives no key, and an address only the ARP table knows gives no key.
C18_KeySet ==
  result = "published" =>
    /\ \A k \in DOMAIN data :
         k # <<>> /\ NoUpper(k) /\ LeasesOf(k) \cup DevicesOf(k) # {}
    /\ \A rec \in Range(pub.leases) \cup Range(pub.devices) :
         HasHw(rec) => \E k \in DOMAIN data : SameIgnoringCase(rec.hwaddr, k)

\* C18 witness: a map was published from a lease without hwaddr and a lease
\* with one, while the ARP table names an address that is in no record.
C18_Witness ==
  /\ result = "published"
  /\ LeaseNoHw \in Range(pub.leases)
  /\ DOMAIN data = {MacA}
  /\ \E ip \in DOMAIN arp_cache : arp_cache[ip] = MacB

\* ------------------------------------------------------------------------
\* Claim about the ARP parse (checked under ArpSpec)
\* ------------------------------------------------------------------------
HexAny == HexDigits \cup UpperHex

\* a token of the shape of a hardware address, in either letter case
IsMacToken(t) ==
  /\ Len(t) = 17
  /\ \A i \in 1..17 : IF i % 3 = 0 THEN t[i] \in {":", "-"} ELSE t[i] \in HexAny

\* a line that has at least five tokens, one of them of address shape
Qualifies(line) == Len(line) >= 5 /\ \E j \in 1..Len(line) : IsMacToken(line[j])

FirstMacToken(line) ==
  line[CHOOSE j \in 1..Len(line) :
         IsMacToken(line[j]) /\ \A i \in 1..(j - 1) : ~IsMacToken(line[i])]

\* v is t in lower case with ":" as the delimiter
IsNormalOf(v, t) ==
  /\ SameAddress(v, t)
  /\ NoUpper(v)
  /\ \A i \in 1..Len(v) : v[i] # "-"

\* C19: the table _get_arp_table returns has an entry exactly for the lines
\* with at least five tokens and a token of address shape, keyed by the
\* line's first token; its value is the first such token of the last line
\* of that key, in lower case with "-" replaced by ":".
C19_ArpTable ==
  (ssh_out.ran /\ ssh_out.ok) =>
    LET lines == ssh_out.stdout
        good == {i \in DOMAIN lines : Qualifies(lines[i])}
    IN /\ DOMAIN arp_cache = {lines[i][1] : i \in good}
       /\ \A ip \in DOMAIN arp_cache :
            LET last == CHOOSE i \in good :
                          lines[i][1] = ip /\ \A j \in good : lines[j][1] = ip => j <= i
            IN IsNormalOf(arp_cache[ip], FirstMacToken(lines[last]))

\* C19 witness: two lines named the same IP and the later line's address,
\* written with dashes in the earlier one's place, is the entry.
C19_Witness ==
  /\ ssh_out.ok
  /\ Len(ssh_out.stdout) >= 2
  /\ ssh_out.stdout[1] = ArpLine(Ip10, MacB)
  /\ ssh_out.stdout[2] = ArpLine(Ip10, MacADash)
  /\ arp_cache[Ip10] = MacA

\* ------------------------------------------------------------------------
\* Claims about the API client (checked under ApiSpec)
\* ------------------------------------------------------------------------

\* C11: the retry on 401 of async_get_status, async_get_summary and
\* async_get_clients is bounded: one call re-authenticates at most once and
\* sends at most four requests (authenticate, GET, re-authenticate, GET).
C11_ApiRetryBounded == api.reauths <= 1 /\ api.calls <= 4

NoSidCached == api.sid \in {None, <<>>}

\* C12: async_test_connection never raises; it returns true exactly when a
\* non-empty SID is held afterwards (cached, or issued by a 200
\* authentication); after an unreachable host, a timeout, a non-200
\* response or a 200 response without a SID it returns false and no SID is
\* cached.
C12_TestConnection ==
  (api.method = "test" /\ api.pc = "idle") =>
     /\ api.result.kind = "returned"
     /\ api.result.value \in {PyTrue, PyFalse}
     /\ (api.result.value = PyTrue) <=> ~NoSidCached
     /\ (api.event \in {"cached", "auth_ok"}) <=> (api.result.value = PyTrue)
     /\ api.event \in {"auth_unreachable", "auth_timeout", "auth_rejected",
                       "auth_non200", "auth_no_sid"} =>
          api.result.value = PyFalse /\ NoSidCached

\* C12 witness: a 200 authentication response with an empty SID made the
\* connection test return false.
C12_Witness ==
  /\ api.method = "test"
  /\ api.pc = "idle"
  /\ api.event = "auth_no_sid"
  /\ api.sid = <<>>
  /\ api.result.value = PyFalse

C14_ErrorTellsCause ==
  (flow.pc = "idle" /\ flow.step = "submit") =>
     /\ flow.event \in {"auth_unreachable", "auth_timeout"} =>
          flow.errors = "cannot_connect"
     /\ flow.event = "auth_rejected" => flow.errors = "invalid_auth"

\* C20: the user step creates an entry only after the connection test of
\* that step succeeded; a failed test creates no entry and shows the form
\* with exactly one of cannot_connect, invalid_auth, unknown; a host that is
\* already configured aborts the flow before any connection test.
C20_EntryOnlyAfterTest ==
  [][/\ flow'.entries # flow.entries =>
          /\ flow.pc = "testing"
          /\ flow'.result = "create_entry"
          /\ flow'.event = "auth_ok"
          /\ flow'.tests = 1
          /\ flow'.entries = flow.entries \cup {flow.host}
     /\ flow'.result = "create_entry" =>
          flow.pc = "testing" /\ flow'.event = "auth_ok" /\ flow.host \notin flow.entries
     /\ (flow.pc = "testing" /\ flow'.pc = "idle" /\ flow'.event # "auth_ok") =>
          /\ flow'.entries = flow.entries
          /\ flow'.result = "form"
          /\ flow'.errors \in {"cannot_connect", "invalid_auth", "unknown"}
     /\ (flow.pc = "idle" /\ flow'.step = "submit" /\ flow'.host \in flow.entries) =>
          /\ flow'.result = "abort"
          /\ flow'.pc = "idle"
          /\ flow'.tests = 0
          /\ api' = api
          /\ flow'.entries = flow.entries]_vars

\* C20 witness: a second host was configured by a step whose connection
\* test succeeded.
C20_Witness ==
  /\ flow.result = "create_entry"
  /\ flow.event = "auth_ok"
  /\ Cardinality(flow.entries) = 2
  /\ flow.host \in flow.entries

\* ------------------------------------------------------------------------
\* Claims about the ARP enrichment (checked under MergeSpec)
\* ------------------------------------------------------------------------

\* C21: after a tick that published with a non-empty ARP table, an entry of
\* key m lists every IP the table maps to m, and every IP it lists beyond
\* those of its leases and device records is one the table maps to m.
C21_EnrichmentMacExact ==
  (result = "published" /\ DOMAIN arp_cache # {}) =>
    \A m \in DOMAIN data :
      /\ \A ip \in DOMAIN arp_cache : arp_cache[ip] = m => ip \in pub.sets[m].ips
      /\ \A ip \in pub.sets[m].ips \ (LeaseIps(m) \cup DeviceIps(m)) :
           ip \in DOMAIN arp_cache /\ arp_cache[ip] = m

\* C21 witness: an entry gained an IP from the ARP table, whose address was
\* written with dashes there, while another entry of the map did not.
C21_Witness ==
  /\ result = "published"
  /\ DOMAIN data = {MacA, MacB}
  /\ Ip10 \in DOMAIN arp_cache
  /\ arp_cache[Ip10] = MacA
  /\ Ip10 \notin LeaseIps(MacA) \cup DeviceIps(MacA)
  /\ Ip10 \in pub.sets[MacA].ips
  /\ Ip10 \notin pub.sets[MacB].ips

\* ------------------------------------------------------------------------
\* Claims about the held SID and about failures (checked under Spec)
\* ------------------------------------------------------------------------
NonEmptySid(s) == s \notin {None, <<>>}

\* C23: an authentication POST is sent only while no SID is held, at the
\* start of a tick or after a 401; a tick that starts with a held SID begins
\* with the lease GET and sends no authentication unless a 401 comes; the
\* held SID changes only by being cleared on a 401 or by an authentication
\* response; a failed authentication leaves no non-empty SID held.
C23_AuthOnlyWithoutSid ==
  [][/\ obs'.auths = obs.auths + 1 =>
          /\ ~NonEmptySid(sid')
          /\ pc = "idle" \/ obs'.event = "unauthorized"
     /\ (pc = "idle" /\ pc' # "idle" /\ NonEmptySid(sid)) =>
          pc' = "leases" /\ obs'.auths = 0
     /\ (pc' # "idle" /\ depth' = 0 /\ obs'.attempt[1] = "leases") => obs'.auths = 0
     /\ sid' # sid =>
          \/ obs'.event = "unauthorized" /\ sid' = None
          \/ pc = "auth" /\ obs'.event \in {"auth_ok", "auth_failed"}
     /\ (pc = "auth" /\ obs'.event = "auth_failed") => ~NonEmptySid(sid')]_vars

\* C23 witness: a tick that started with a held SID reached the ARP fetch
\* without an authentication request.
C23_Witness ==
  /\ pc = "arp"
  /\ depth = 0
  /\ obs.auths = 0
  /\ obs.attempt = <<"leases", "devices", "arp">>
  /\ NonEmptySid(sid)

\* every lease of the body that has a hardware address names an IP
LeasesCarryIp(body) ==
  \A l \in Range(DictGet(body, "leases", <<>>)) : HasHw(l) => "ip" \in DOMAIN l

FetchedIps == {line[1] : line \in {l \in Range(ssh_out.stdout) : l # <<>>}}

\* C22: the ARP cache is replaced as a whole by each attempt that reaches the
\* ARP step: after a tick that ran the remote command, every IP of the cache
\* is an IP of the output fetched during that tick (none when the command
\* failed), whatever the cache held before; and an entity none of whose IPs
\* is in that output and whose last_query is older than the threshold reads
\* as not connected.
C22_CacheReplacedEachTick ==
  (pc = "idle" /\ ssh_out.ran) =>
    /\ DOMAIN arp_cache \subseteq FetchedIps
    /\ ~ssh_out.ok => DOMAIN arp_cache = {}
    /\ \A mac \in DOMAIN data, now \in 0..MaxNow :
         ( /\ IpSet(data[mac].ips) \cap FetchedIps = {}
           /\ IsNumber(data[mac].last_query)
           /\ now - data[mac].last_query.val > away_time )
         => /\ ~IsConnected(data, arp_cache, away_time, mac, now)
            /\ (trk.mac = mac /\ trk.now = now) => ~trk.connected

\* C22 witness: the cache held 1.10 before the tick, the output fetched
\* during the tick no longer names it, and the entity whose only IP it is,
\* last heard of longer ago than the threshold, was read as not connected.
C22_Witness ==
  /\ pc = "idle"
  /\ result = "published"
  /\ ssh_out.ran
  /\ ssh_out.ok
  /\ Ip10 \in ssh_out.before
  /\ Ip10 \notin DOMAIN arp_cache
  /\ DOMAIN arp_cache # {}
  /\ trk.mac = MacA
  /\ MacA \in DOMAIN data
  /\ data[MacA].ips = Ip10
  /\ trk.now - data[MacA].last_query.val > away_time
  /\ ~trk.connected

\* C25: the set of tracker entities is fixed at platform setup to one entity
\* per MAC of the coordinator's data at that moment; no later step adds or
\* removes an entity; and an entity whose MAC is missing from the published
\* map reads is_connected() False and empty extra state attributes.
C25_EntitiesFixedAtSetup ==
  [][/\ (~entities.added /\ entities'.added) =>
          /\ DOMAIN entities'.unique_id = DOMAIN data
          /\ DOMAIN entities'.name = DOMAIN data
          /\ data' = data
     /\ entities.added => entities' = entities
     /\ (trk'.mac # None /\ trk'.mac \notin DOMAIN data') =>
          /\ trk'.mac \in DOMAIN entities'.unique_id
          /\ ~trk'.connected
          /\ trk'.attrs = EmptyDict]_vars

\* C25 witness: after the platform setup a later tick published a map that
\* lacks the MAC of an entity and holds a MAC that has no entity, and that
\* entity was read.
C25_Witness ==
  /\ entities.added
  /\ result = "published"
  /\ trk.mac \in DOMAIN entities.unique_id
  /\ trk.mac \notin DOMAIN data
  /\ DOMAIN data \ DOMAIN entities.unique_id # {}
  /\ ~trk.connected
  /\ trk.attrs = EmptyDict

\* C26: tracker unique ids are unique per device: two entities created for
\* two different MAC keys of the published map never get the same unique_id.
C26_UniqueIdsDiffer ==
  \A m1 \in DOMAIN entities.unique_id, m2 \in DOMAIN entities.unique_id :
    m1 # m2 => entities.unique_id[m1] # entities.unique_id[m2]

\* ------------------------------------------------------------------------
\* Claims about setup and unload (checked under SetupSpec)
\* ------------------------------------------------------------------------

\* C27: the per-entry record (coordinator and away_time under the entry id)
\* exists exactly when the last setup of the entry completed its first
\* refresh successfully and no successful unload followed: an entry last set
\* up against an appliance that answers the first refresh has its record, an
\* entry last set up against one that fails has none, and an entry never set
\* up, or last unloaded with the platforms unloaded, has none.
C27_RecordIffSetUp ==
  \A e \in EntryIds :
    LET call == hass_data.last[e]
    IN /\ (call.op = "setup" /\ call.appliance = "answers") =>
            /\ e \in DOMAIN hass_data.records
            /\ hass_data.records[e].coordinator = e
       /\ (call.op = "setup" /\ call.appliance = "fails") =>
            e \notin DOMAIN hass_data.records
       /\ (call.op = "none" \/ (call.op = "unload" /\ call.unload_ok)) =>
            e \notin DOMAIN hass_data.records

====
